---- MODULE Spec2Model ----
(***************************************************************************)
(* The task lifecycle engine of text2image: the task registry              *)
(* (LibraryContext), the Task state and the resizable ThreadPool, with the *)
(* C ABI entry points of text2image.cpp as the operations of client threads.*)
(*                                                                         *)
(* Threads.  Worker threads run ThreadPool::worker; client threads call    *)
(* the ABI.  A step of a thread is a maximal piece of code that is atomic  *)
(* for the other threads: a critical section of m_mutex or m_tasksMutex,   *)
(* or a single store/load of a task field.  Code that does not hold        *)
(* m_mutex (--m_activeThreads, m_workers.emplace_back, the stores to a     *)
(* Task) interleaves with a worker that holds it, so the worker's critical *)
(* section is two steps (the wait predicate, then lines 113-131) and       *)
(* m_mutex records its holder.                                             *)
(*                                                                         *)
(* Environment assumption: ThreadPool::setMaxThreads and                   *)
(* LibraryContext::shutdown are not called concurrently with each other    *)
(* (both touch the m_workers vector without any lock).                     *)
(***************************************************************************)
EXTENDS Integers, Sequences, FiniteSets, TLC

\* ---- bounds of the model ------------------------------------------------
HardwareConcurrency == 1   \* value of std::thread::hardware_concurrency()
MaxNumThreads == 2         \* largest argument given to Text2Image_SetMaxThreads
MaxTasks == 2              \* Task objects ever created
MaxAsyncCalls == 2         \* renderAsync calls that reach setCallback
NumClients == 2            \* client threads calling the ABI
MaxOps == 4                \* ABI calls made by the clients

\* front() on an empty queue can hand out an old entry only this often
MaxDequeues == MaxAsyncCalls + 1

Tasks == 1..MaxTasks
Calls == 1..MaxAsyncCalls
Clients == 1..NumClients
MaxWorkers == IF HardwareConcurrency > MaxNumThreads THEN HardwareConcurrency ELSE MaxNumThreads
Workers == 1..MaxWorkers

\* ---- TaskStatus (text2image_internal.h:39-45) ---------------------------
PENDING == "Pending"
RUNNING == "Running"
COMPLETED == "Completed"
FAILED == "Failed"
TaskStatus == {PENDING, RUNNING, COMPLETED, FAILED}

\* messages the SkiaRenderEngine stores in a task when render() fails
EngineErrors == {"Failed to create Skia surface"}
\* what happens to the output file of a render: no path was given, the file
\* is written, it cannot be opened, the write fails
FileOutcomes == {"no_path", "written", "open_fails", "write_fails"}
\* the messages of the two handlers of renderSync (library_context.cpp:184, 191)
ExceptionErrors == {"Exception during rendering", "Unknown exception during rendering"}

VARIABLES
  \* LibraryContext
  m_initialized,    \* std::atomic<bool>
  m_renderEngine,   \* TRUE iff the unique_ptr holds an engine
  ctx_m_tasks,      \* LibraryContext::m_tasks: the handles in the map
  m_lastError,      \* the last-error slot ("" when empty)
  \* Task objects (object i is the i-th one constructed)
  nTasks,           \* number of Task objects whose construction has begun
  m_status, m_result, m_errorMessage,
  m_handle,         \* Task::m_handle, the address of the object (0 = not constructed)
  m_refs,           \* use_count of the shared_ptr<Task>s that own the object
  m_callback,       \* 0 = nullptr, k = the callback/userData pair of call k
  \* ThreadPool
  m_stop, m_activeThreads, m_maxThreads,
  m_workers,        \* m_workers.size(): threads 1..m_workers are in the vector
  pool_m_tasks,     \* ThreadPool::m_tasks: FIFO of entries (see NewEntry)
  m_mutex,          \* 0 = free, w = held by worker w
  \* threads
  wpc,              \* position of each worker thread
  wentry,           \* the queue entry a worker holds; NoEntry if none
  cpc,              \* position of each client thread
  carg,             \* locals of the client's current call
  ret,              \* what the most recent call with a result returned
  opsLeft,          \* number of ABI calls the clients may still make
  terminated,       \* the process has been ended (std::terminate or a crash)
  \* history
  nCalls,           \* renderAsync calls that reached setCallback
  dequeued,         \* the entries workers took from the queue, in order
  cbLog,            \* per dequeued entry, the callback invocations made for it
  freedBusy,        \* tasks that freeTask erased while a worker was mid-render
  buffer            \* what the last successful GetResult copied out ("" = none yet)

ctxVars == <<m_initialized, m_renderEngine, ctx_m_tasks, m_lastError>>
taskFields == <<nTasks, m_status, m_result, m_errorMessage, m_callback, m_handle>>
taskVars == <<taskFields, m_refs>>
poolVars == <<m_stop, m_activeThreads, m_maxThreads, m_workers, pool_m_tasks, m_mutex>>
workerVars == <<wpc, wentry>>
clientVars == <<cpc, carg, ret, opsLeft>>
histVars == <<nCalls, dequeued, cbLog, freedBusy, buffer>>
vars == <<ctxVars, taskVars, poolVars, workerVars, clientVars, histVars, terminated>>

\* A queue entry is a shared_ptr<Task>.  The model tags it with the
\* renderAsync call that pushed it (call), whether that call supplied a
\* callback (cb), and its position in the order of acceptance (ticket).
NoEntry == [task |-> 0, call |-> 0, cb |-> FALSE, ticket |-> 0]
NoArg == [task |-> 0, n |-> 0, cb |-> FALSE]

Range(s) == {s[i] : i \in DOMAIN s}

\* ---- std::shared_ptr<Task> ------------------------------------------------
\* m_refs after a shared_ptr to object t is copied / is released; the object
\* is destroyed when the count reaches 0
Acquire(t) == [m_refs EXCEPT ![t] = @ + 1]
Release(t) == [m_refs EXCEPT ![t] = IF @ > 0 THEN @ - 1 ELSE 0]
\* object t has been constructed and not destroyed / has been destroyed
Alive(t) == m_refs[t] > 0
Destroyed(t) == m_handle[t] # 0 /\ m_refs[t] = 0

\* ---- addresses of Task objects --------------------------------------------
Handles == 1..MaxTasks
\* addresses that some Task object has had / that hold a live object
EverUsed == {m_handle[t] : t \in Tasks} \ {0}
InUse == {m_handle[t] : t \in {u \in Tasks : Alive(u)}}
\* where make_shared may place a new Task: on the address of a destroyed
\* object, or on a new one (new addresses are interchangeable: the lowest)
AllocChoicesAny == Handles
AllocChoices ==
  (EverUsed \ InUse) \cup {CHOOSE a \in Handles \ EverUsed : \A b \in Handles \ EverUsed : a <= b}

\* a worker is between taking task t from the queue (thread_pool.cpp:126)
\* and invoking its callback (thread_pool.cpp:149)
MidRender(t) == \E w \in Workers : wentry[w].task = t /\ wpc[w] \in {"run", "work"}

\* LibraryContext::getTask (library_context.cpp:127-134): the object the
\* registry holds under handle h, 0 if none
GetTask(h) ==
  LET s == {t \in ctx_m_tasks : m_handle[t] = h}
  IN IF s = {} THEN 0 ELSE CHOOSE t \in s : TRUE

\* ---- std::queue operations on ThreadPool::m_tasks -----------------------
\* a push at the front, as a stack would do
QueuePushFront(q, e) == <<e>> \o q
\* m_tasks.push(task)
QueuePush(q, e) == Append(q, e)
\* m_tasks.front()
QueueFront(q) == Head(q)
\* m_tasks.pop()
QueuePop(q) == Tail(q)

\* ---- the condition variable -----------------------------------------------
Sleeping == {w \in Workers : wpc[w] = "sleeping"}
\* wpc after m_condition.notify_all(): every waiter becomes runnable
NotifyAll == [w \in Workers |-> IF wpc[w] = "sleeping" THEN "wait" ELSE wpc[w]]
\* wpc after m_condition.notify_one() when waiter w is the one chosen
NotifyOne(w) == [wpc EXCEPT ![w] = "wait"]

\* ---- Init: the state after static initialisation --------------------------
\* g_context is constructed before main(): the pool already runs
\* hardware_concurrency() workers, the library is not initialized.
InitWith(ops) ==
  /\ m_initialized = FALSE
  /\ m_renderEngine = FALSE
  /\ ctx_m_tasks = {}
  /\ m_lastError = ""
  /\ nTasks = 0
  /\ m_status = [t \in Tasks |-> PENDING]
  /\ m_result = [t \in Tasks |-> ""]
  /\ m_errorMessage = [t \in Tasks |-> ""]
  /\ m_callback = [t \in Tasks |-> 0]
  /\ m_handle = [t \in Tasks |-> 0]
  /\ m_refs = [t \in Tasks |-> 0]
  /\ m_stop = FALSE
  /\ m_activeThreads = 0
  /\ m_maxThreads = HardwareConcurrency
  /\ m_workers = HardwareConcurrency
  /\ pool_m_tasks = <<>>
  /\ m_mutex = 0
  /\ wpc = [w \in Workers |-> IF w <= HardwareConcurrency THEN "wait" ELSE "unborn"]
  /\ wentry = [w \in Workers |-> NoEntry]
  /\ cpc = [c \in Clients |-> "idle"]
  /\ carg = [c \in Clients |-> NoArg]
  /\ ret = "none"
  /\ opsLeft = ops
  /\ terminated = FALSE
  /\ nCalls = 0
  /\ dequeued = <<>>
  /\ cbLog = [k \in Calls |-> <<>>]
  /\ freedBusy = {}
  /\ buffer = ""

\* the client threads that may make the next call: threads outside a call
\* are interchangeable, so the call is made by the first of them
Callers == {c \in Clients : cpc[c] = "idle" /\ \A d \in Clients : cpc[d] = "idle" => c <= d}

\* client c makes a new call, if the clients have calls left / goes on
\* with the call it is in
StartCall(c) == opsLeft > 0 /\ c \in Callers /\ opsLeft' = opsLeft - 1
Continue == opsLeft' = opsLeft

\* the clients make at most MaxOps calls, or one less, or one or two more
Init == InitWith(MaxOps)
ShortInit == InitWith(MaxOps - 1)
DeepInit == InitWith(MaxOps + 1)
DeeperInit == InitWith(MaxOps + 2)

\* the state in which Text2Image_Init, Text2Image_CreateTask, a
\* Text2Image_SetMaxThreads that starts one more worker, one that goes back
\* to the first number, and Text2Image_Shutdown leave the program: the workers
\* have left, m_stop is set, the registry is cleared and its task destroyed;
\* the clients have MaxOps calls left
RestartInit ==
  /\ m_initialized = FALSE
  /\ m_renderEngine = FALSE
  /\ ctx_m_tasks = {}
  /\ m_lastError = ""
  /\ nTasks = 1
  /\ m_status = [t \in Tasks |-> PENDING]
  /\ m_result = [t \in Tasks |-> ""]
  /\ m_errorMessage = [t \in Tasks |-> ""]
  /\ m_callback = [t \in Tasks |-> 0]
  /\ m_handle = [t \in Tasks |-> IF t = 1 THEN 1 ELSE 0]
  /\ m_refs = [t \in Tasks |-> 0]
  /\ m_stop = TRUE
  /\ m_activeThreads = 0
  /\ m_maxThreads = HardwareConcurrency
  /\ m_workers = 0
  /\ pool_m_tasks = <<>>
  /\ m_mutex = 0
  /\ wpc = [w \in Workers |-> IF w <= HardwareConcurrency + 1 THEN "exited" ELSE "unborn"]
  /\ wentry = [w \in Workers |-> NoEntry]
  /\ cpc = [c \in Clients |-> "idle"]
  /\ carg = [c \in Clients |-> NoArg]
  /\ ret = "handle"
  /\ opsLeft = MaxOps
  /\ terminated = FALSE
  /\ nCalls = 0
  /\ dequeued = <<>>
  /\ cbLog = [k \in Calls |-> <<>>]
  /\ freedBusy = {}
  /\ buffer = ""

\* the state in which Text2Image_Init, a Text2Image_SetMaxThreads that starts
\* one more worker and a Text2Image_CreateTask leave the program: the library
\* is initialized, the target and the worker set are one above
\* hardware_concurrency(), no worker has run yet, the registry holds one
\* Pending task; the clients have two calls left
GrownInit ==
  /\ m_initialized = TRUE
  /\ m_renderEngine = TRUE
  /\ ctx_m_tasks = {1}
  /\ m_lastError = ""
  /\ nTasks = 1
  /\ m_status = [t \in Tasks |-> PENDING]
  /\ m_result = [t \in Tasks |-> ""]
  /\ m_errorMessage = [t \in Tasks |-> ""]
  /\ m_callback = [t \in Tasks |-> 0]
  /\ m_handle = [t \in Tasks |-> IF t = 1 THEN 1 ELSE 0]
  /\ m_refs = [t \in Tasks |-> IF t = 1 THEN 1 ELSE 0]
  /\ m_stop = FALSE
  /\ m_activeThreads = 0
  /\ m_maxThreads = HardwareConcurrency + 1
  /\ m_workers = HardwareConcurrency + 1
  /\ pool_m_tasks = <<>>
  /\ m_mutex = 0
  /\ wpc = [w \in Workers |-> IF w <= HardwareConcurrency + 1 THEN "wait" ELSE "unborn"]
  /\ wentry = [w \in Workers |-> NoEntry]
  /\ cpc = [c \in Clients |-> "idle"]
  /\ carg = [c \in Clients |-> NoArg]
  /\ ret = "handle"
  /\ opsLeft = 2
  /\ terminated = FALSE
  /\ nCalls = 0
  /\ dequeued = <<>>
  /\ cbLog = [k \in Calls |-> <<>>]
  /\ freedBusy = {}
  /\ buffer = ""

\* ---- ThreadPool::worker --------------------------------------------------

\* the predicate of m_condition.wait (thread_pool.cpp:108-110)
WaitPredicate == m_stop \/ pool_m_tasks # <<>> \/ m_activeThreads >= m_maxThreads

\* lines 105-110: take m_mutex and evaluate the predicate; block if it is false
W_Wait(w) ==
  /\ ~terminated
  /\ wpc[w] = "wait"
  /\ m_mutex = 0
  /\ IF WaitPredicate
       THEN /\ wpc' = [wpc EXCEPT ![w] = "locked"]
            /\ m_mutex' = w
       ELSE /\ wpc' = [wpc EXCEPT ![w] = "sleeping"]
            /\ m_mutex' = m_mutex
  /\ UNCHANGED <<ctxVars, taskVars, m_stop, m_activeThreads, m_maxThreads, m_workers,
                 pool_m_tasks, wentry, clientVars, histVars, terminated>>

\* a spurious wake-up of a thread blocked in m_condition.wait
W_SpuriousWake(w) ==
  /\ ~terminated
  /\ wpc[w] = "sleeping"
  /\ wpc' = [wpc EXCEPT ![w] = "wait"]
  /\ UNCHANGED <<ctxVars, taskVars, poolVars, wentry, clientVars, histVars, terminated>>

\* a test that lets a worker go whenever the queue is empty
ExitCheckIdle == m_stop \/ pool_m_tasks = <<>>
\* line 113: the worker is asked to stop or is idle at full load
ExitCheck == m_stop \/ (pool_m_tasks = <<>> /\ m_activeThreads >= m_maxThreads)

\* a dequeue that leaves the busy counter as it is
TakeEntryUncounted(w, e) ==
  /\ wentry' = [wentry EXCEPT ![w] = e]
  /\ m_activeThreads' = m_activeThreads
  /\ dequeued' = Append(dequeued, e)
  /\ wpc' = [wpc EXCEPT ![w] = "run"]
\* lines 126-130 for worker w, entry e being what m_tasks.front() returned
TakeEntry(w, e) ==
  /\ wentry' = [wentry EXCEPT ![w] = e]
  /\ m_activeThreads' = m_activeThreads + 1
  /\ dequeued' = Append(dequeued, e)
  /\ wpc' = [wpc EXCEPT ![w] = "run"]

\* a critical section that is left with the lock still held by worker w
ScopeKeepsLock(w) == w
\* the closing brace of line 131 (and the return of line 116): the
\* std::unique_lock of worker w goes out of scope, m_mutex is free
ScopeUnlock(w) == 0

\* lines 113-131, entered holding m_mutex: leave the thread, go round the loop
\* again, or dequeue the front task.  front() and pop() on an empty std::queue
\* are undefined: the process crashes, or front() yields what is left in the
\* container's storage, a shared_ptr that was queued before.
W_Locked(w) ==
  /\ ~terminated
  /\ wpc[w] = "locked"
  /\ m_mutex = w
  /\ m_mutex' = ScopeUnlock(w)
  /\ IF ExitCheck /\ m_workers > m_maxThreads
       THEN \* line 116: return
            /\ wpc' = [wpc EXCEPT ![w] = "exited"]
            /\ UNCHANGED <<pool_m_tasks, m_activeThreads, wentry, dequeued, terminated, m_refs>>
       ELSE IF ExitCheck /\ pool_m_tasks = <<>>
         THEN \* line 121: continue
            /\ wpc' = [wpc EXCEPT ![w] = "wait"]
            /\ UNCHANGED <<pool_m_tasks, m_activeThreads, wentry, dequeued, terminated, m_refs>>
         ELSE IF pool_m_tasks # <<>>
           THEN \* lines 126-130
              /\ TakeEntry(w, QueueFront(pool_m_tasks))
              /\ pool_m_tasks' = QueuePop(pool_m_tasks)
              /\ UNCHANGED <<terminated, m_refs>>
           ELSE \* lines 126-127 on an empty queue
              \/ /\ terminated' = TRUE
                 /\ UNCHANGED <<pool_m_tasks, m_activeThreads, wentry, dequeued, wpc, m_refs>>
              \/ /\ Len(dequeued) < MaxDequeues
                 /\ \E e \in Range(dequeued) :
                      /\ TakeEntry(w, e)
                      /\ m_refs' = IF Alive(e.task) THEN Acquire(e.task) ELSE m_refs
                 /\ UNCHANGED <<pool_m_tasks, terminated>>
  /\ UNCHANGED <<ctxVars, taskFields, m_stop, m_maxThreads, m_workers,
                 clientVars, nCalls, cbLog, freedBusy, buffer>>

\* line 135: task->setStatus(RUNNING)
W_SetRunning(w) ==
  /\ ~terminated
  /\ wpc[w] = "run"
  /\ m_status' = [m_status EXCEPT ![wentry[w].task] = RUNNING]
  /\ wpc' = [wpc EXCEPT ![w] = "work"]
  /\ UNCHANGED <<ctxVars, nTasks, m_result, m_errorMessage, m_callback, m_handle, m_refs, poolVars,
                 wentry, clientVars, histVars, terminated>>

\* lines 143-146: the simulated work, then task->setStatus(COMPLETED)
W_SetCompleted(w) ==
  /\ ~terminated
  /\ wpc[w] = "work"
  /\ m_status' = [m_status EXCEPT ![wentry[w].task] = COMPLETED]
  /\ wpc' = [wpc EXCEPT ![w] = "callback"]
  /\ UNCHANGED <<ctxVars, nTasks, m_result, m_errorMessage, m_callback, m_handle, m_refs, poolVars,
                 wentry, clientVars, histVars, terminated>>

\* Task::executeCallback (text2image_internal.h:75-79) called by worker w:
\* the log of w's entry after the call
ExecuteCallback(w, success) ==
  LET t == wentry[w].task
      k == wentry[w].call
  IN IF m_callback[t] # 0
       THEN [cbLog EXCEPT ![k] = Append(@, [cb |-> m_callback[t], task |-> t,
                                             success |-> success, status |-> m_status[t]])]
       ELSE cbLog

\* line 149: task->executeCallback(true); the callback returns or throws.
\* What it throws is taken to be a std::exception, caught at line 151 (the
\* handler of line 157 does the same with another message).
W_Callback(w) ==
  /\ ~terminated
  /\ wpc[w] = "callback"
  /\ cbLog' = ExecuteCallback(w, TRUE)
  /\ IF m_callback[wentry[w].task] # 0
       THEN \E outcome \in {"dec", "catch"} :
              wpc' = [wpc EXCEPT ![w] = outcome]
       ELSE wpc' = [wpc EXCEPT ![w] = "dec"]
  /\ UNCHANGED <<ctxVars, taskVars, poolVars, wentry, clientVars, nCalls, dequeued, freedBusy, buffer,
                 terminated>>

\* lines 151-154: the handler stores FAILED and the message
W_Catch(w) ==
  /\ ~terminated
  /\ wpc[w] = "catch"
  /\ m_status' = [m_status EXCEPT ![wentry[w].task] = FAILED]
  /\ m_errorMessage' = [m_errorMessage EXCEPT ![wentry[w].task] = "Exception in worker thread"]
  /\ wpc' = [wpc EXCEPT ![w] = "catch_cb"]
  /\ UNCHANGED <<ctxVars, nTasks, m_result, m_callback, m_handle, m_refs, poolVars,
                 wentry, clientVars, histVars, terminated>>

\* line 155: task->executeCallback(false) inside the handler; an
\* exception thrown here leaves the thread function: std::terminate
W_CatchCallback(w) ==
  /\ ~terminated
  /\ wpc[w] = "catch_cb"
  /\ cbLog' = ExecuteCallback(w, FALSE)
  /\ wpc' = [wpc EXCEPT ![w] = "dec"]
  /\ IF m_callback[wentry[w].task] # 0
       THEN terminated' \in BOOLEAN
       ELSE terminated' = terminated
  /\ UNCHANGED <<ctxVars, taskVars, poolVars, wentry, clientVars, nCalls, dequeued, freedBusy, buffer>>

\* line 165: --m_activeThreads (atomic, m_mutex not held); the shared_ptr
\* of this iteration is released and the loop starts again
W_Decrement(w) ==
  /\ ~terminated
  /\ wpc[w] = "dec"
  /\ m_activeThreads' = m_activeThreads - 1
  /\ wentry' = [wentry EXCEPT ![w] = NoEntry]
  /\ m_refs' = Release(wentry[w].task)
  /\ wpc' = [wpc EXCEPT ![w] = "wait"]
  /\ UNCHANGED <<ctxVars, taskFields, m_stop, m_maxThreads, m_workers, pool_m_tasks, m_mutex,
                 clientVars, histVars, terminated>>

WorkerStep(w) ==
  \/ W_Wait(w)
  \/ W_Locked(w)
  \/ W_SetRunning(w)
  \/ W_SetCompleted(w)
  \/ W_Callback(w)
  \/ W_Catch(w)
  \/ W_CatchCallback(w)
  \/ W_Decrement(w)

\* ---- client threads: the ABI of text2image.cpp ----------------------------

\* the call of client c returns v: "true", "false", "null", "handle", or
\* "void" for a function without result
Return(c, v) ==
  /\ cpc' = [cpc EXCEPT ![c] = "idle"]
  /\ carg' = [carg EXCEPT ![c] = NoArg]
  /\ ret' = IF v = "void" THEN ret ELSE v

\* another client is inside setMaxThreads or shutdown
AdminBusy(c) ==
  \E d \in Clients \ {c} : cpc[d] \in {"smt_grow", "sd_join", "sd_engine", "sd_clear", "sd_flag"}

\* an initialize that never takes the early return
AlreadyInitializedNever == FALSE
\* library_context.cpp:33: initialize returns at once if m_initialized.load()
AlreadyInitialized == m_initialized

\* Text2Image_Init -> LibraryContext::initialize (library_context.cpp:32-62)
Text2Image_Init(c) ==
  /\ ~terminated
  /\ StartCall(c)
  /\ cpc[c] = "idle"
  /\ IF AlreadyInitialized
       THEN /\ Return(c, "true")
            /\ UNCHANGED ctxVars
       ELSE \E engineOk \in BOOLEAN :
              IF engineOk
                THEN /\ m_renderEngine' = TRUE
                     /\ m_initialized' = TRUE
                     /\ Return(c, "true")
                     /\ UNCHANGED <<ctx_m_tasks, m_lastError>>
                ELSE /\ m_lastError' = "Failed to initialize render engine: Skia"
                     /\ m_renderEngine' = FALSE
                     /\ Return(c, "false")
                     /\ UNCHANGED <<m_initialized, ctx_m_tasks>>
  /\ UNCHANGED <<taskVars, poolVars, workerVars, histVars, terminated>>

\* a createTask that goes on whatever the state of the library
CreateAllowedAlways == TRUE
\* library_context.cpp:88: createTask goes on if m_initialized.load()
CreateAllowed == m_initialized

\* Text2Image_CreateTask (text2image.cpp:32-46) -> LibraryContext::createTask
\* up to the test of m_initialized (library_context.cpp:88-91); html tells
\* whether the html argument is non-null
Text2Image_CreateTask(c, html) ==
  /\ ~terminated
  /\ StartCall(c)
  /\ cpc[c] = "idle"
  /\ IF ~html
       THEN /\ m_lastError' = "HTML content cannot be null"
            /\ Return(c, "null")
            /\ UNCHANGED nTasks
       ELSE IF ~CreateAllowed
         THEN /\ m_lastError' = "Library not initialized"
              /\ Return(c, "null")
              /\ UNCHANGED nTasks
         ELSE /\ nTasks < MaxTasks
              /\ nTasks' = nTasks + 1
              /\ cpc' = [cpc EXCEPT ![c] = "create_insert"]
              /\ carg' = [carg EXCEPT ![c] = [NoArg EXCEPT !.task = nTasks + 1]]
              /\ UNCHANGED <<ret, m_lastError>>
  /\ UNCHANGED <<m_initialized, m_renderEngine, ctx_m_tasks, m_status, m_result, m_errorMessage,
                 m_callback, m_handle, m_refs, poolVars, workerVars, histVars, terminated>>

\* a registry that the assignment leaves as it was
MapAssignNothing(t, a) == ctx_m_tasks
\* library_context.cpp:99: m_tasks[task->getHandle()] = task, for the object
\* t at address a: the registry afterwards
MapAssign(t, a) == (ctx_m_tasks \ {u \in ctx_m_tasks : m_handle[u] = a}) \cup {t}

\* a constructor that takes the fields over from the object constructed before
Task_CopyOfLast(t) ==
  LET u == IF t > 1 THEN t - 1 ELSE t
  IN /\ m_status' = [m_status EXCEPT ![t] = m_status[u]]
     /\ m_result' = [m_result EXCEPT ![t] = m_result[u]]
     /\ m_errorMessage' = [m_errorMessage EXCEPT ![t] = m_errorMessage[u]]
     /\ m_callback' = [m_callback EXCEPT ![t] = m_callback[u]]
\* Task::Task (task.cpp:15-22, text2image_internal.h:47-92) for object t:
\* m_status PENDING, no callback, m_result and m_errorMessage default-constructed
Task_Task(t) ==
  /\ m_status' = [m_status EXCEPT ![t] = PENDING]
  /\ m_result' = [m_result EXCEPT ![t] = ""]
  /\ m_errorMessage' = [m_errorMessage EXCEPT ![t] = ""]
  /\ m_callback' = [m_callback EXCEPT ![t] = 0]

\* library_context.cpp:93-103 and Task::Task (task.cpp:15-25): the Task is
\* constructed at some address, which is its handle, and m_tasks[handle] is
\* assigned (an entry already stored under that key is replaced); the local
\* shared_ptr goes away at the return (text2image.cpp:49)
CreateTask_Insert(c) ==
  /\ ~terminated
  /\ Continue
  /\ cpc[c] = "create_insert"
  /\ \E a \in AllocChoices :
       LET t == carg[c].task
           old == {u \in ctx_m_tasks : m_handle[u] = a}
       IN /\ m_handle' = [m_handle EXCEPT ![t] = a]
          /\ Task_Task(t)
          /\ ctx_m_tasks' = MapAssign(t, a)
          /\ m_refs' = [u \in Tasks |-> IF u = t THEN 1
                                        ELSE IF u \in old /\ m_refs[u] > 0 THEN m_refs[u] - 1
                                        ELSE m_refs[u]]
  /\ Return(c, "handle")
  /\ UNCHANGED <<m_initialized, m_renderEngine, m_lastError, nTasks, poolVars, workerVars,
                 histVars, terminated>>

\* Text2Image_FreeTask (text2image.cpp:125-129) -> LibraryContext::freeTask
\* (library_context.cpp:115-125) for a non-null handle
Text2Image_FreeTask(c, h) ==
  /\ ~terminated
  /\ StartCall(c)
  /\ cpc[c] = "idle"
  /\ IF GetTask(h) # 0
       THEN /\ ctx_m_tasks' = ctx_m_tasks \ {GetTask(h)}
            /\ m_refs' = Release(GetTask(h))
            /\ freedBusy' = IF MidRender(GetTask(h)) THEN freedBusy \cup {GetTask(h)}
                                                     ELSE freedBusy
       ELSE UNCHANGED <<ctx_m_tasks, m_refs, freedBusy>>
  /\ Return(c, "void")
  /\ UNCHANGED <<m_initialized, m_renderEngine, m_lastError, taskFields, poolVars,
                 workerVars, nCalls, dequeued, cbLog, buffer, terminated>>

\* Text2Image_GetResult (text2image.cpp:82-96), for non-null buffer and size
\* arguments: the parameter test, getTask and the test of the status;
\* taskPtr owns the task until the call returns
Text2Image_GetResult(c, h) ==
  /\ ~terminated
  /\ StartCall(c)
  /\ cpc[c] = "idle"
  /\ IF h = 0 \/ GetTask(h) = 0 \/ m_status[GetTask(h)] # COMPLETED
       THEN /\ m_lastError' = (IF h = 0 THEN "Invalid parameters"
                               ELSE IF GetTask(h) = 0 THEN "Task not found"
                               ELSE "Task not completed")
            /\ Return(c, "false")
            /\ UNCHANGED m_refs
       ELSE /\ m_refs' = Acquire(GetTask(h))
            /\ cpc' = [cpc EXCEPT ![c] = "gr_copy"]
            /\ carg' = [carg EXCEPT ![c] = [NoArg EXCEPT !.task = GetTask(h)]]
            /\ UNCHANGED <<ret, m_lastError>>
  /\ UNCHANGED <<m_initialized, m_renderEngine, ctx_m_tasks, taskFields, poolVars, workerVars,
                 histVars, terminated>>

\* the engine of another thread is inside render() for task t and stores
\* its result (skia_render_engine.cpp:272) without any lock
ResultBeingWritten(c, t) ==
  \E d \in Clients \ {c} : cpc[d] = "sync_render" /\ carg[d].task = t

\* text2image.cpp:98-116: the result is read and copied out.  A read of
\* m_result while another thread assigns it is a data race: the copy is
\* right, or torn, or the process crashes.
GetResult_Copy(c) ==
  /\ ~terminated
  /\ Continue
  /\ cpc[c] = "gr_copy"
  /\ \/ /\ IF m_result[carg[c].task] = ""
             THEN /\ m_lastError' = "No result available"
                  /\ Return(c, "false")
                  /\ UNCHANGED buffer
             ELSE /\ buffer' = m_result[carg[c].task]
                  /\ Return(c, "true")
                  /\ UNCHANGED m_lastError
        /\ UNCHANGED terminated
     \/ /\ ResultBeingWritten(c, carg[c].task)
        /\ \/ /\ buffer' = "torn"
              /\ Return(c, "true")
              /\ UNCHANGED terminated
           \/ /\ terminated' = TRUE
              /\ UNCHANGED <<buffer, cpc, carg, ret>>
        /\ UNCHANGED m_lastError
  /\ m_refs' = Release(carg[c].task)
  /\ UNCHANGED <<m_initialized, m_renderEngine, ctx_m_tasks, taskFields, poolVars, workerVars,
                 nCalls, dequeued, cbLog, freedBusy>>

\* why Text2Image_Render / Text2Image_RenderAsync reject handle h before any
\* work ("" if they do not): text2image.cpp:53-62, 68-77 and
\* library_context.cpp:137-145, 199-207
LookupError(h) ==
  IF h = 0 THEN "Invalid task handle"
  ELSE IF GetTask(h) = 0 THEN "Task not found"
  ELSE IF ~m_initialized THEN "Library not initialized"
  ELSE ""

\* Text2Image_Render up to task->setStatus(RUNNING) (library_context.cpp:149);
\* taskPtr owns the task until the call returns
Text2Image_Render(c, h) ==
  /\ ~terminated
  /\ StartCall(c)
  /\ cpc[c] = "idle"
  /\ IF LookupError(h) # ""
       THEN /\ m_lastError' = LookupError(h)
            /\ Return(c, "false")
            /\ UNCHANGED <<m_status, m_refs>>
       ELSE /\ m_status' = [m_status EXCEPT ![GetTask(h)] = RUNNING]
            /\ m_refs' = Acquire(GetTask(h))
            /\ cpc' = [cpc EXCEPT ![c] = "sync_render"]
            /\ carg' = [carg EXCEPT ![c] = [NoArg EXCEPT !.task = GetTask(h)]]
            /\ UNCHANGED <<ret, m_lastError>>
  /\ UNCHANGED <<m_initialized, m_renderEngine, ctx_m_tasks, nTasks, m_result,
                 m_errorMessage, m_callback, m_handle, poolVars, workerVars, histVars, terminated>>

\* m_renderEngine->render(task) (library_context.cpp:152): the engine stores
\* the result (skia_render_engine.cpp:272) or an error message and reports
\* success, or an exception leaves the call (RenderEngine::render is not
\* noexcept; the handlers of skia_render_engine.cpp:276-283 build a
\* std::string); a released engine is a null pointer and the call crashes
RenderSync_Render(c) ==
  /\ ~terminated
  /\ Continue
  /\ cpc[c] = "sync_render"
  /\ IF ~m_renderEngine
       THEN /\ terminated' = TRUE
            /\ UNCHANGED <<m_result, m_errorMessage, cpc>>
       ELSE /\ terminated' = terminated
            /\ \/ /\ m_result' = [m_result EXCEPT ![carg[c].task] = "bytes"]
                  /\ cpc' = [cpc EXCEPT ![c] = "sync_ok"]
                  /\ UNCHANGED m_errorMessage
               \/ \E e \in EngineErrors :
                  /\ m_errorMessage' = [m_errorMessage EXCEPT ![carg[c].task] = e]
                  /\ cpc' = [cpc EXCEPT ![c] = "sync_failed"]
                  /\ UNCHANGED m_result
               \/ /\ cpc' = [cpc EXCEPT ![c] = "sync_catch"]
                  /\ UNCHANGED <<m_result, m_errorMessage>>
  /\ UNCHANGED <<ctxVars, nTasks, m_status, m_callback, m_handle, m_refs, poolVars, workerVars,
                 carg, ret, histVars>>

\* library_context.cpp:154-175: render() succeeded; the status store, the
\* output file, the return; or an exception leaves the file output (the
\* std::string of the path, the message of lines 162 and 167)
RenderSync_Success(c) ==
  /\ ~terminated
  /\ Continue
  /\ cpc[c] = "sync_ok"
  /\ m_status' = [m_status EXCEPT ![carg[c].task] = COMPLETED]
  /\ \/ /\ \E file \in FileOutcomes :
            IF file = "open_fails"
              THEN /\ m_lastError' = "Failed to open output file"
                   /\ Return(c, "false")
              ELSE IF file = "write_fails"
                THEN /\ m_lastError' = "Failed to write to output file"
                     /\ Return(c, "false")
                ELSE /\ m_lastError' = m_lastError
                     /\ Return(c, "true")
        /\ m_refs' = Release(carg[c].task)
     \/ /\ cpc' = [cpc EXCEPT ![c] = "sync_catch"]
        /\ UNCHANGED <<carg, ret, m_lastError, m_refs>>
  /\ UNCHANGED <<m_initialized, m_renderEngine, ctx_m_tasks, nTasks, m_result,
                 m_errorMessage, m_callback, m_handle, poolVars, workerVars, histVars, terminated>>

\* an exception reaches no handler of renderSync and leaves the call
RenderSync_Uncaught(c) ==
  /\ ~terminated
  /\ Continue
  /\ cpc[c] = "sync_catch"
  /\ terminated' = TRUE
  /\ Return(c, "void")
  /\ m_refs' = Release(carg[c].task)
  /\ UNCHANGED <<ctxVars, taskFields, poolVars, workerVars, histVars>>
\* library_context.cpp:182-195: the handlers of renderSync store FAILED, the
\* message in the task and in the last-error slot, and return false
RenderSync_Catch(c) ==
  /\ ~terminated
  /\ Continue
  /\ cpc[c] = "sync_catch"
  /\ m_status' = [m_status EXCEPT ![carg[c].task] = FAILED]
  /\ \E e \in ExceptionErrors :
       /\ m_errorMessage' = [m_errorMessage EXCEPT ![carg[c].task] = e]
       /\ m_lastError' = e
  /\ Return(c, "false")
  /\ m_refs' = Release(carg[c].task)
  /\ UNCHANGED <<m_initialized, m_renderEngine, ctx_m_tasks, nTasks, m_result,
                 m_callback, m_handle, poolVars, workerVars, histVars, terminated>>

\* library_context.cpp:176-180: render() failed
RenderSync_Failure(c) ==
  /\ ~terminated
  /\ Continue
  /\ cpc[c] = "sync_failed"
  /\ m_status' = [m_status EXCEPT ![carg[c].task] = FAILED]
  /\ m_lastError' = "Rendering failed"
  /\ Return(c, "false")
  /\ m_refs' = Release(carg[c].task)
  /\ UNCHANGED <<m_initialized, m_renderEngine, ctx_m_tasks, nTasks, m_result,
                 m_errorMessage, m_callback, m_handle, poolVars, workerVars, histVars, terminated>>

\* Text2Image_RenderAsync up to task->setCallback (library_context.cpp:211);
\* call k supplies the callback/userData pair k, or no callback; taskPtr
\* owns the task until the call returns
Text2Image_RenderAsync(c, h, hasCallback) ==
  /\ ~terminated
  /\ StartCall(c)
  /\ cpc[c] = "idle"
  /\ IF LookupError(h) # ""
       THEN /\ m_lastError' = LookupError(h)
            /\ Return(c, "false")
            /\ UNCHANGED <<m_callback, nCalls, m_refs>>
       ELSE /\ nCalls < MaxAsyncCalls
            /\ nCalls' = nCalls + 1
            /\ m_callback' = [m_callback EXCEPT ![GetTask(h)] = IF hasCallback THEN nCalls + 1 ELSE 0]
            /\ m_refs' = Acquire(GetTask(h))
            /\ cpc' = [cpc EXCEPT ![c] = "async_enqueue"]
            /\ carg' = [carg EXCEPT ![c] = [task |-> GetTask(h), n |-> nCalls + 1, cb |-> hasCallback]]
            /\ UNCHANGED <<ret, m_lastError>>
  /\ UNCHANGED <<m_initialized, m_renderEngine, ctx_m_tasks, nTasks, m_status, m_result,
                 m_errorMessage, m_handle, poolVars, workerVars, dequeued, cbLog, freedBusy, buffer,
                 terminated>>

\* the entry that client c pushes: its task, tagged with the call
NewEntry(c) ==
  [task |-> carg[c].task, call |-> carg[c].n, cb |-> carg[c].cb,
   ticket |-> Cardinality({e.ticket : e \in Range(dequeued)}) + Len(pool_m_tasks) + 1]

\* the test of ThreadPool::enqueue (thread_pool.cpp:35), and a variant without it
EnqueueRejectsNever == FALSE
EnqueueRejects == m_stop

\* what renderAsync stores in the last-error slot when enqueue throws
\* (thread_pool.cpp:36, library_context.cpp:254-256)
PoolStopped == "Exception during async rendering setup: enqueue on stopped ThreadPool"

\* m_threadPool.enqueue(task) (thread_pool.cpp:30-45) and the return of
\* renderAsync (library_context.cpp:251-262)
RenderAsync_Enqueue(c) ==
  /\ ~terminated
  /\ Continue
  /\ cpc[c] = "async_enqueue"
  /\ m_mutex = 0
  /\ IF EnqueueRejects
       THEN /\ m_lastError' = PoolStopped
            /\ m_refs' = Release(carg[c].task)
            /\ Return(c, "false")
            /\ UNCHANGED <<pool_m_tasks, wpc>>
       ELSE /\ pool_m_tasks' = QueuePush(pool_m_tasks, NewEntry(c))
            /\ IF Sleeping = {}
                 THEN wpc' = wpc
                 ELSE \E w \in Sleeping : wpc' = NotifyOne(w)
            /\ Return(c, "true")
            /\ UNCHANGED <<m_lastError, m_refs>>
  /\ UNCHANGED <<m_initialized, m_renderEngine, ctx_m_tasks, taskFields, m_stop, m_activeThreads,
                 m_maxThreads, m_workers, m_mutex, wentry, histVars, terminated>>

\* Text2Image_SetMaxThreads (text2image.cpp:135-142) -> ThreadPool::setMaxThreads
\* (thread_pool.cpp:67-98) up to the store of m_maxThreads and, when the pool
\* shrinks, the notify_all
Text2Image_SetMaxThreads(c, numThreads) ==
  LET n == IF numThreads <= 0 THEN HardwareConcurrency ELSE numThreads
  IN /\ ~terminated
     /\ StartCall(c)
     /\ cpc[c] = "idle"
     /\ ~AdminBusy(c)
     /\ IF n = m_maxThreads \/ n = m_workers
          THEN /\ Return(c, "void")
               /\ UNCHANGED <<m_maxThreads, wpc>>
          ELSE /\ m_mutex = 0
               /\ m_maxThreads' = n
               /\ IF n > m_workers
                    THEN /\ cpc' = [cpc EXCEPT ![c] = "smt_grow"]
                         /\ carg' = [carg EXCEPT ![c] = [NoArg EXCEPT !.n = n]]
                         /\ UNCHANGED <<ret, wpc>>
                    ELSE /\ wpc' = NotifyAll
                         /\ Return(c, "void")
     /\ UNCHANGED <<ctxVars, taskVars, m_stop, m_activeThreads, m_workers, pool_m_tasks,
                    m_mutex, wentry, histVars, terminated>>

\* one iteration of the loop of thread_pool.cpp:82-84: start a worker thread
SetMaxThreads_Grow(c) ==
  /\ ~terminated
  /\ Continue
  /\ cpc[c] = "smt_grow"
  /\ m_workers' = m_workers + 1
  /\ wpc' = [wpc EXCEPT ![m_workers + 1] = "wait"]
  /\ IF m_workers + 1 >= carg[c].n
       THEN Return(c, "void")
       ELSE UNCHANGED <<cpc, carg, ret>>
  /\ UNCHANGED <<ctxVars, taskVars, m_stop, m_activeThreads, m_maxThreads, pool_m_tasks,
                 m_mutex, wentry, histVars, terminated>>

\* Text2Image_Shutdown -> LibraryContext::shutdown (library_context.cpp:64-70)
\* -> ThreadPool::shutdown up to notify_all (thread_pool.cpp:47-54)
Text2Image_Shutdown(c) ==
  /\ ~terminated
  /\ StartCall(c)
  /\ cpc[c] = "idle"
  /\ ~AdminBusy(c)
  /\ IF ~m_initialized
       THEN /\ Return(c, "void")
            /\ UNCHANGED <<m_stop, wpc>>
       ELSE /\ m_mutex = 0
            /\ m_stop' = TRUE
            /\ wpc' = NotifyAll
            /\ cpc' = [cpc EXCEPT ![c] = "sd_join"]
            /\ UNCHANGED <<carg, ret>>
  /\ UNCHANGED <<ctxVars, taskVars, m_activeThreads, m_maxThreads, m_workers, pool_m_tasks,
                 m_mutex, wentry, histVars, terminated>>

\* thread_pool.cpp:57-64: every join has returned; m_workers.clear()
Shutdown_Join(c) ==
  /\ ~terminated
  /\ Continue
  /\ cpc[c] = "sd_join"
  /\ \A w \in 1..m_workers : wpc[w] = "exited"
  /\ m_workers' = 0
  /\ cpc' = [cpc EXCEPT ![c] = "sd_engine"]
  /\ UNCHANGED <<ctxVars, taskVars, m_stop, m_activeThreads, m_maxThreads, pool_m_tasks,
                 m_mutex, workerVars, carg, ret, histVars, terminated>>

\* library_context.cpp:73-76: the render engine is released
Shutdown_Engine(c) ==
  /\ ~terminated
  /\ Continue
  /\ cpc[c] = "sd_engine"
  /\ m_renderEngine' = FALSE
  /\ cpc' = [cpc EXCEPT ![c] = "sd_clear"]
  /\ UNCHANGED <<m_initialized, ctx_m_tasks, m_lastError, taskVars, poolVars, workerVars,
                 carg, ret, histVars, terminated>>

\* library_context.cpp:79-82: m_tasks.clear()
Shutdown_Clear(c) ==
  /\ ~terminated
  /\ Continue
  /\ cpc[c] = "sd_clear"
  /\ ctx_m_tasks' = {}
  /\ m_refs' = [t \in Tasks |-> IF t \in ctx_m_tasks /\ m_refs[t] > 0 THEN m_refs[t] - 1
                                 ELSE m_refs[t]]
  /\ cpc' = [cpc EXCEPT ![c] = "sd_flag"]
  /\ UNCHANGED <<m_initialized, m_renderEngine, m_lastError, taskFields, poolVars, workerVars,
                 carg, ret, histVars, terminated>>

\* library_context.cpp:84: m_initialized.store(false)
Shutdown_Flag(c) ==
  /\ ~terminated
  /\ Continue
  /\ cpc[c] = "sd_flag"
  /\ m_initialized' = FALSE
  /\ Return(c, "void")
  /\ UNCHANGED <<m_renderEngine, ctx_m_tasks, m_lastError, taskVars, poolVars, workerVars,
                 histVars, terminated>>

ClientContinue(c) ==
  \/ CreateTask_Insert(c)
  \/ GetResult_Copy(c)
  \/ RenderSync_Render(c)
  \/ RenderSync_Success(c)
  \/ RenderSync_Failure(c)
  \/ RenderSync_Catch(c)
  \/ RenderAsync_Enqueue(c)
  \/ SetMaxThreads_Grow(c)
  \/ Shutdown_Join(c)
  \/ Shutdown_Engine(c)
  \/ Shutdown_Clear(c)
  \/ Shutdown_Flag(c)

ClientCall(c) ==
  \/ Text2Image_Init(c)
  \/ \E html \in BOOLEAN : Text2Image_CreateTask(c, html)
  \/ \E h \in EverUsed : Text2Image_FreeTask(c, h)
  \/ \E h \in {0} \cup EverUsed : Text2Image_GetResult(c, h)
  \/ \E h \in {0} \cup EverUsed : Text2Image_Render(c, h)
  \/ \E h \in {0} \cup EverUsed, hasCallback \in BOOLEAN : Text2Image_RenderAsync(c, h, hasCallback)
  \/ \E numThreads \in 0..MaxNumThreads : Text2Image_SetMaxThreads(c, numThreads)
  \/ Text2Image_Shutdown(c)

Next ==
  \/ \E w \in Workers : WorkerStep(w)
  \/ \E w \in Workers : W_SpuriousWake(w)
  \/ \E c \in Clients : ClientContinue(c)
  \/ \E c \in Clients : ClientCall(c)

\* the program with at most MaxOps ABI calls
Spec == Init /\ [][Next]_vars

\* the same with one more call
DeepSpec == DeepInit /\ [][Next]_vars

\* the same with two more calls
DeeperSpec == DeeperInit /\ [][Next]_vars

\* the program with at most MaxOps - 1 calls from its construction, or with
\* at most MaxOps calls after a first life that a completed shutdown has ended
RestartSpec == (ShortInit \/ RestartInit) /\ [][Next]_vars

\* the program with at most MaxOps - 1 calls from its construction, or with
\* two calls after an initialize, a grow of the pool and the creation of a
\* task
GrownSpec == (ShortInit \/ GrownInit) /\ [][Next]_vars

\* the same as Spec under a fair scheduler: a worker thread, and a client
\* thread that is inside a call, is not held up forever when it can run
LiveSpec ==
  /\ Init /\ [][Next]_vars
  /\ \A w \in Workers : WF_vars(WorkerStep(w))
  /\ \A c \in Clients : WF_vars(ClientContinue(c))

\* the same as DeepSpec under the fair scheduler of LiveSpec
DeepLiveSpec ==
  /\ DeepInit /\ [][Next]_vars
  /\ \A w \in Workers : WF_vars(WorkerStep(w))
  /\ \A c \in Clients : WF_vars(ClientContinue(c))

TypeOK ==
  /\ m_initialized \in BOOLEAN /\ m_renderEngine \in BOOLEAN
  /\ ctx_m_tasks \subseteq Tasks
  /\ nTasks \in 0..MaxTasks
  /\ m_status \in [Tasks -> TaskStatus]
  /\ m_callback \in [Tasks -> 0..MaxAsyncCalls]
  /\ m_handle \in [Tasks -> {0} \cup Handles]
  /\ freedBusy \subseteq Tasks
  /\ buffer \in {"", "bytes", "torn"}
  /\ m_refs \in [Tasks -> 0..(NumClients + MaxAsyncCalls + MaxWorkers + 1)]
  /\ m_activeThreads \in 0..MaxWorkers
  /\ m_maxThreads \in 1..MaxWorkers
  /\ m_workers \in 0..MaxWorkers
  /\ m_mutex \in 0..MaxWorkers
  /\ nCalls \in 0..MaxAsyncCalls

\* ---- properties ------------------------------------------------------------

\* every callback invocation made so far, as <<call, index>> into cbLog
Invocations == UNION {{<<k, i>> : i \in DOMAIN cbLog[k]} : k \in Calls}
\* the entries enqueue has accepted so far
AcceptedEntries == Range(pool_m_tasks) \cup Range(dequeued)
\* index at which the entry with ticket tk was first taken from the queue
FirstTaken(tk) ==
  CHOOSE i \in DOMAIN dequeued :
    /\ dequeued[i].ticket = tk
    /\ \A j \in 1..(i - 1) : dequeued[j].ticket # tk
\* some thread is inside LibraryContext::renderSync for task t, or t carries
\* what a renderSync left in it
SyncRendered(t) ==
  \/ m_result[t] # ""
  \/ m_errorMessage[t] \in EngineErrors \cup ExceptionErrors
  \/ \E c \in Clients : /\ cpc[c] \in {"sync_render", "sync_ok", "sync_failed", "sync_catch"}
                        /\ carg[c].task = t
\* task t was submitted by a single renderAsync call and by nothing else
RenderedOnce(t) ==
  /\ ~SyncRendered(t)
  /\ Cardinality({e \in AcceptedEntries : e.task = t}) = 1
  /\ Cardinality({i \in DOMAIN dequeued : dequeued[i].task = t}) = 1
\* no thread is working on task t
Quiescent(t) ==
  /\ \A c \in Clients : carg[c].task # t
  /\ \A w \in Workers : wentry[w].task # t

\* C1: a task accepted from one renderAsync call is taken from the queue at
\* most once, by at most one worker, whatever the interleaving of enqueue,
\* wake-ups and setMaxThreads calls: no accepted entry occurs twice among
\* the entries that workers have dequeued.
C1_DequeuedAtMostOnce ==
  \A i, j \in DOMAIN dequeued : dequeued[i].ticket = dequeued[j].ticket => i = j

\* C2: for each accepted renderAsync call whose task is dequeued, the callback
\* supplied in that call is invoked exactly once (never twice; once when the
\* worker is done with the entry), also when renderAsync is called more than
\* once on the same handle.  Stated for runs in which no callback has thrown.
C2_CallbackExactlyOnce ==
  (\A p \in Invocations : cbLog[p[1]][p[2]].success)
  => \A e \in Range(dequeued) :
       e.cb =>
         LET n == Cardinality({p \in Invocations : cbLog[p[1]][p[2]].cb = e.call})
         IN /\ n <= 1
            /\ (\A w \in Workers : wentry[w] # e) => n = 1

\* C3: an accepted renderAsync call on a pool that is not shut down leads,
\* under fair scheduling, to its task being dequeued and to the status
\* Completed or Failed being stored by the worker that took it (after which
\* the worker invokes the callback).
C3_AcceptedEventuallyDone ==
  \A k \in Calls :
    ((\E e \in AcceptedEntries : e.call = k) /\ ~m_stop)
    ~> (\/ m_stop
        \/ \E e \in Range(dequeued) :
             /\ e.call = k
             /\ \A w \in Workers :
                  wentry[w] = e => wpc[w] \in {"callback", "catch", "catch_cb", "dec"})

\* C4: the success flag given to a callback matches the status of the task,
\* when the callback is invoked and afterwards: true exactly with Completed,
\* false exactly with Failed.  Stated for a task that a single renderAsync
\* call submitted and nothing else rendered.
C4_FlagMatchesStatus ==
  \A p \in Invocations :
    LET r == cbLog[p[1]][p[2]]
    IN RenderedOnce(r.task) =>
         /\ r.success <=> (r.status = COMPLETED)
         /\ ~r.success <=> (r.status = FAILED)
         /\ r.success <=> (m_status[r.task] = COMPLETED)
         /\ ~r.success <=> (m_status[r.task] = FAILED)

\* C5: workers dequeue in the order in which enqueue accepted: of two entries
\* that have both been dequeued, the one accepted first was taken first.
C5_FifoDequeue ==
  \A i, j \in DOMAIN dequeued :
    dequeued[i].ticket < dequeued[j].ticket
      => FirstTaken(dequeued[i].ticket) < FirstTaken(dequeued[j].ticket)

\* two entries accepted in some order have both been dequeued
C5_Witness ==
  \E i, j \in DOMAIN dequeued : dequeued[i].ticket < dequeued[j].ticket

\* C6: when renderAsync reaches enqueue on a stopped pool, the queue is left
\* unchanged, renderAsync returns false and the last-error slot holds the
\* rejection; and renderAsync returns true only when its task has been
\* appended to the queue.
C6_StoppedPoolRejects ==
  [][\A c \in Clients :
       (cpc[c] = "async_enqueue" /\ cpc'[c] = "idle") =>
         /\ m_stop => /\ pool_m_tasks' = pool_m_tasks
                      /\ ret' = "false"
                      /\ m_lastError' = PoolStopped
         /\ ret' = "true" => /\ Len(pool_m_tasks') = Len(pool_m_tasks) + 1
                             /\ SubSeq(pool_m_tasks', 1, Len(pool_m_tasks)) = pool_m_tasks
                             /\ pool_m_tasks'[Len(pool_m_tasks')].task = carg[c].task]_vars

\* a renderAsync call has been rejected by the stopped pool
C6_Witness ==
  /\ m_stop
  /\ ret = "false"
  /\ m_lastError = PoolStopped
  /\ pool_m_tasks = <<>>

\* C7: ThreadPool::shutdown terminates in every pool state: a client that
\* waits in the joins eventually gets past them (unless the process has been
\* ended in the meantime).
C7_ShutdownTerminates ==
  \A c \in Clients : (cpc[c] = "sd_join") ~> (cpc[c] # "sd_join" \/ terminated)

\* C8: once the stopped flag is set, nothing is dequeued any more and no
\* callback is invoked for an entry that was still queued.
C8_NoDequeueAfterStop ==
  [][m_stop => dequeued' = dequeued]_vars

\* C9: the status of a task only moves forward: never from Completed or
\* Failed to Running or Pending, never from Running to Pending.
C9_StatusForwardOnly ==
  [][\A t \in Tasks :
       /\ m_status[t] \in {COMPLETED, FAILED} => m_status'[t] \notin {RUNNING, PENDING}
       /\ m_status[t] = RUNNING => m_status'[t] # PENDING]_vars

\* C10: a non-empty result implies the status Completed.  Stated for the
\* tasks on which no thread is working.
C10_ResultImpliesCompleted ==
  \A t \in Tasks : (Quiescent(t) /\ m_result[t] # "") => m_status[t] = COMPLETED

\* C11: a non-empty errorMessage implies the status Failed, and result and
\* errorMessage are never both non-empty.  Stated for the tasks on which no
\* thread is working.
C11_ErrorImpliesFailed ==
  \A t \in Tasks :
    (Quiescent(t) /\ m_errorMessage[t] # "")
      => (m_status[t] = FAILED /\ m_result[t] = "")

\* C12: when freeTask(h) runs while a worker is working on the task of h, the
\* task object stays alive as long as the worker holds it, and once the worker
\* is done the task is in a terminal state, its result is what it was (the
\* async path stores none) and the callback of the one renderAsync call has
\* been invoked exactly once.
C12_FreeDuringRender ==
  \A t \in Tasks :
    (t \in freedBusy /\ RenderedOnce(t)) =>
      /\ \A w \in Workers : wentry[w].task = t => Alive(t)
      /\ (Quiescent(t) /\ \A e \in Range(pool_m_tasks) : e.task # t) =>
           /\ m_status[t] \in {COMPLETED, FAILED}
           /\ m_result[t] = ""
           /\ \A e \in Range(dequeued) :
                (e.task = t /\ e.cb) =>
                  Cardinality({p \in Invocations : cbLog[p[1]][p[2]].cb = e.call}) = 1

\* C13: a Task is destroyed only when no holder needs it: a task that is in
\* the registry map, in the pool queue, or held by a worker that took it from
\* the queue has not been destroyed.
C13_HeldNotDestroyed ==
  \A t \in Tasks :
    (\/ t \in ctx_m_tasks
     \/ \E e \in Range(pool_m_tasks) : e.task = t
     \/ \E w \in Workers : wentry[w].task = t)
    => ~Destroyed(t)

\* the state of RestartInit, but for the number of calls left
AfterFirstLife ==
  /\ ~m_initialized /\ ~m_renderEngine /\ ctx_m_tasks = {} /\ m_lastError = ""
  /\ nTasks = 1 /\ m_handle[1] = 1 /\ \A t \in Tasks : m_refs[t] = 0 /\ m_status[t] = PENDING
  /\ m_stop /\ m_activeThreads = 0 /\ m_maxThreads = HardwareConcurrency /\ m_workers = 0
  /\ pool_m_tasks = <<>> /\ m_mutex = 0
  /\ \A w \in Workers : wpc[w] = (IF w <= HardwareConcurrency + 1 THEN "exited" ELSE "unborn")
  /\ \A c \in Clients : cpc[c] = "idle"
  /\ ret = "handle" /\ ~terminated /\ nCalls = 0 /\ dequeued = <<>> /\ freedBusy = {}

\* a shutdown has completed and no initialize has succeeded since
PostShutdown == m_stop /\ ~m_initialized

\* C14: after a shutdown has completed and until a later initialize
\* succeeds, every entry point fails: a createTask call returns no handle, a
\* render and a renderAsync call return false, and the call creates no task,
\* stores none in the registry, enqueues none and has none executed.
C14_FailsAfterShutdown ==
  [][\A c \in Clients :
       /\ (PostShutdown /\ \E html \in BOOLEAN : Text2Image_CreateTask(c, html))
            => ret' = "null"
       /\ (PostShutdown /\ \E h \in {0} \cup EverUsed :
                              \/ Text2Image_Render(c, h)
                              \/ \E cb \in BOOLEAN : Text2Image_RenderAsync(c, h, cb))
            => ret' = "false"
       /\ (PostShutdown /\ \/ \E html \in BOOLEAN : Text2Image_CreateTask(c, html)
                           \/ \E h \in {0} \cup EverUsed :
                                \/ Text2Image_Render(c, h)
                                \/ \E cb \in BOOLEAN : Text2Image_RenderAsync(c, h, cb))
            => /\ cpc'[c] = "idle"
               /\ UNCHANGED <<ctx_m_tasks, taskVars, pool_m_tasks, dequeued, m_activeThreads,
                              nCalls, wentry>>]_vars

\* after the shutdown a createTask has failed with the not-initialized
\* message, and nothing has been created since the first life
C14_Witness ==
  /\ PostShutdown
  /\ m_lastError = "Library not initialized"
  /\ ret = "null"
  /\ nTasks = 1 /\ m_handle[1] # 0
  /\ m_workers = 0

\* a shutdown has completed and an initialize has succeeded since
Restarted ==
  /\ m_stop
  /\ m_initialized
  /\ \A c \in Clients : cpc[c] \notin {"sd_join", "sd_engine", "sd_clear", "sd_flag"}

\* C15: after a shutdown followed by a successful initialize the library is
\* usable again, ThreadPool included: a createTask call goes on to create its
\* task, and a renderAsync call that reaches enqueue is accepted (it returns
\* true, and its task is in the queue for a worker to execute).
C15_UsableAfterRestart ==
  [][\A c \in Clients :
       /\ (Restarted /\ Text2Image_CreateTask(c, TRUE)) => cpc'[c] = "create_insert"
       /\ (Restarted /\ RenderAsync_Enqueue(c))
            => /\ ret' = "true"
               /\ \E e \in Range(pool_m_tasks') : e.task = carg[c].task]_vars

\* C16: once a shutdown has returned (and until the library is initialized
\* again) the registry tracks no task, whatever the interleaving of the
\* shutdown with concurrent createTask calls.
C16_RegistryEmptyAfterShutdown ==
  PostShutdown => ctx_m_tasks = {}

\* C17: initialize is idempotent: called on an initialized library it returns
\* success and changes nothing of the library's state (the context, the
\* tasks, the pool and its workers).
C17_InitIdempotent ==
  [][\A c \in Clients :
       (m_initialized /\ cpc[c] = "idle" /\ opsLeft' < opsLeft /\ Text2Image_Init(c))
         => /\ ret' = "true"
            /\ UNCHANGED <<ctxVars, taskVars, poolVars, workerVars, histVars, terminated>>]_vars

\* the call that followed a successful createTask returned true without
\* rendering anything: it was an initialize
C17_Witness ==
  /\ m_initialized
  /\ ret = "true"
  /\ nTasks = 1 /\ 1 \in ctx_m_tasks
  /\ m_status[1] = PENDING
  /\ nCalls = 0

\* C18: a createTask call on a library that is not running fails: it returns
\* no handle, adds nothing to the registry and records the not-initialized
\* message as the last error.  A createTask call that creates its task
\* stores it under its handle and returns the handle: a lookup of the handle
\* in the registry yields that task and no other.
C18_CreateTask ==
  [][\A c \in Clients :
       /\ (~m_initialized /\ cpc[c] = "idle" /\ Text2Image_CreateTask(c, TRUE))
            => /\ ret' = "null"
               /\ cpc'[c] = "idle"
               /\ m_lastError' = "Library not initialized"
               /\ UNCHANGED <<ctx_m_tasks, taskVars>>
       /\ (cpc[c] = "create_insert" /\ cpc'[c] # "create_insert")
            => LET t == carg[c].task
               IN /\ ret' = "handle"
                  /\ m_handle'[t] # 0
                  /\ {u \in ctx_m_tasks' : m_handle'[u] = m_handle'[t]} = {t}]_vars

\* a createTask has failed on the library not running and a later one has
\* stored its task
C18_Witness ==
  /\ m_lastError = "Library not initialized"
  /\ ret = "handle"
  /\ \E t \in ctx_m_tasks : GetTask(m_handle[t]) = t

\* the tasks of the registry are live objects, and live objects have
\* pairwise distinct handles
DistinctLive ==
  /\ \A t \in ctx_m_tasks : Alive(t)
  /\ \A t, u \in Tasks : (Alive(t) /\ Alive(u) /\ m_handle[t] = m_handle[u]) => t = u

\* C19: concurrent createTask calls return pairwise distinct handles, and
\* each handle of the registry identifies exactly one live task: a createTask
\* that stores its task removes no other task's entry, and afterwards the
\* live tasks, those of the registry among them, have distinct handles.
C19_DistinctHandles ==
  [][\A c \in Clients :
       (cpc[c] = "create_insert" /\ cpc'[c] # "create_insert")
         => (ctx_m_tasks \subseteq ctx_m_tasks' /\ DistinctLive')]_vars

\* two createTask calls overlapped (the task of the call that passed the
\* test of m_initialized first was constructed second) and both are stored
C19_Witness ==
  /\ {1, 2} \subseteq ctx_m_tasks
  /\ m_handle[1] = 2
  /\ m_handle[2] = 1

\* C20: a handle value is never reused while a client may still hold it:
\* after freeTask(h) and the destruction of its task no later createTask
\* returns the same h, so that a stale handle never resolves, through getTask,
\* to a different task.  No two Task objects ever constructed have the same
\* handle.
C20_HandleNeverReused ==
  \A t, u \in Tasks : (m_handle[t] # 0 /\ m_handle[t] = m_handle[u]) => t = u

\* the messages of a failed output-file phase (library_context.cpp:163, 168)
FileErrors == {"Failed to open output file", "Failed to write to output file"}

\* C21: when rendering has succeeded but the output file cannot be opened or
\* written, renderSync returns false and the error message of the task is set
\* and records which phase failed.
C21_FileFailureRecorded ==
  [][\A c \in Clients :
       (cpc[c] = "sync_ok" /\ cpc'[c] = "idle" /\ ret' = "false")
         => /\ m_lastError' \in FileErrors
            /\ m_errorMessage'[carg[c].task] = m_lastError']_vars

\* C22: GetResult is valid only once the status of the task is Completed.
\* Called on a task that is Pending, Running or Failed it returns failure,
\* sets the last error and leaves the task unchanged; when it returns success
\* the task is Completed and what it has copied out is the result of the task.
C22_GetResult ==
  [][\A c \in Clients :
       /\ \A h \in EverUsed :
            (/\ cpc[c] = "idle" /\ opsLeft' < opsLeft
             /\ GetTask(h) # 0 /\ m_status[GetTask(h)] # COMPLETED
             /\ Text2Image_GetResult(c, h))
              => /\ ret' = "false"
                 /\ m_lastError' = "Task not completed"
                 /\ UNCHANGED taskVars
       /\ (cpc[c] = "gr_copy" /\ cpc'[c] = "idle" /\ ret' = "true")
            => /\ m_status[carg[c].task] = COMPLETED
               /\ buffer' # ""
               /\ buffer' = m_result[carg[c].task]
               /\ UNCHANGED taskFields]_vars

\* the worker threads that have been started and have not left worker()
LiveWorkers == {w \in Workers : wpc[w] \notin {"unborn", "exited"}}

\* C23: setMaxThreads(n) with n larger than the number of live workers starts
\* n - current new workers, so that there are n live workers when the call
\* returns, also when earlier shrinks have let workers exit.  Stated for a
\* pool that is not stopped.
C23_GrowReachesTarget ==
  [][\A c \in Clients :
       /\ \A numThreads \in 1..MaxNumThreads :
            (/\ cpc[c] = "idle" /\ opsLeft' < opsLeft /\ ~m_stop
             /\ numThreads > Cardinality(LiveWorkers)
             /\ Text2Image_SetMaxThreads(c, numThreads)
             /\ cpc'[c] = "idle")
              => Cardinality(LiveWorkers') = numThreads
       /\ (cpc[c] = "smt_grow" /\ cpc'[c] = "idle" /\ ~m_stop)
            => Cardinality(LiveWorkers') = carg[c].n]_vars

\* C24: after setMaxThreads has been raised and then lowered to n, the number
\* of live workers converges to n under fair scheduling, without further
\* enqueues: a pool that is not stopped and has more live workers than its
\* target eventually has no more than the target (or is stopped meanwhile).
C24_ShrinkConverges ==
  (~m_stop /\ Cardinality(LiveWorkers) > m_maxThreads)
    ~> (Cardinality(LiveWorkers) <= m_maxThreads \/ m_stop \/ terminated)

\* C25: across any sequence of setMaxThreads calls the number of live workers
\* never exceeds the most recently requested target: whenever no setMaxThreads
\* call is in progress, there are at most m_maxThreads live workers.
C25_LiveAtMostTarget ==
  (\A c \in Clients : cpc[c] # "smt_grow") => Cardinality(LiveWorkers) <= m_maxThreads

\* C26: a worker that dequeued a task does what renderSync does before the
\* callback: between storing Running and storing Completed it has the render
\* engine render the task, so the step in which a worker stores Completed
\* leaves the task with the result the engine produced.
C26_WorkerRenders ==
  [][\A w \in Workers :
       (wpc[w] = "work" /\ wpc'[w] = "callback")
         => /\ m_status'[wentry[w].task] = COMPLETED
            /\ m_result'[wentry[w].task] = "bytes"]_vars

\* C27: no exception raised by the render engine or by the file output
\* escapes renderSync: the step that handles it leaves the process running,
\* the task Failed, the same message in the task and in the last-error slot,
\* and false as the return value.
C27_ExceptionsCaught ==
  [][\A c \in Clients :
       (cpc[c] = "sync_catch" /\ cpc'[c] = "idle")
         => /\ ~terminated'
            /\ ret' = "false"
            /\ m_status'[carg[c].task] = FAILED
            /\ m_lastError' \in ExceptionErrors
            /\ m_errorMessage'[carg[c].task] = m_lastError']_vars
\* a renderSync has returned false after an exception
C27_Witness ==
  /\ ret = "false"
  /\ m_lastError \in ExceptionErrors
  /\ \E t \in Tasks : m_status[t] = FAILED /\ m_errorMessage[t] = m_lastError

\* C28: at the moment createTask returns a handle, the task it created has
\* status Pending, an empty result, an empty error message and no callback.
C28_NewTaskPending ==
  [][\A c \in Clients :
       (cpc[c] = "create_insert" /\ cpc'[c] = "idle" /\ ret' = "handle")
         => LET t == carg[c].task
            IN /\ m_status'[t] = PENDING
               /\ m_result'[t] = ""
               /\ m_errorMessage'[t] = ""
               /\ m_callback'[t] = 0]_vars
\* a second task has just been created after the first one was rendered
C28_Witness ==
  /\ ret = "handle"
  /\ nTasks = 2
  /\ m_result[1] # ""
  /\ m_status[2] = PENDING /\ m_result[2] = "" /\ m_errorMessage[2] = "" /\ m_callback[2] = 0

\* C29: once a worker has dequeued a task, the task runs to a terminal state
\* and its callback is invoked, whatever setMaxThreads and shutdown do in the
\* meantime: under fair scheduling a worker that holds a dequeued task reaches
\* the end of its iteration (line 165), with Completed or Failed stored and
\* the callback called.
C29_DequeuedRunsToEnd ==
  \A w \in Workers : (wpc[w] = "run") ~> (wpc[w] = "dec")

\* C30: a renderSync on a task that was rendered before overwrites status and
\* result with the outcome of this render alone: when it returns true the task
\* is Completed with the result of the render, and when the engine reported a
\* failure (so that this render stored no result) the task is Failed and holds
\* no result left over from the earlier call.  Stated
\* for a call after whose return no other thread is working on the task.
C30_SecondRenderOverwrites ==
  [][\A c \in Clients :
       LET t == carg[c].task
       IN (/\ cpc[c] \in {"sync_ok", "sync_failed"}
           /\ cpc'[c] = "idle"
           /\ \A d \in Clients : carg'[d].task # t
           /\ \A w \in Workers : wentry'[w].task # t)
            => /\ ret' = "true" => (m_status'[t] = COMPLETED /\ m_result'[t] = "bytes")
               /\ cpc[c] = "sync_failed"
                    => (m_status'[t] = FAILED /\ m_result'[t] = "")]_vars

\* the workers that have dequeued a task (line 127) and have not yet reached
\* the end of the iteration (line 165)
BusyWorkers == {w \in Workers : wpc[w] \in {"run", "work", "callback", "catch", "catch_cb", "dec"}}

\* C31: the number of workers that are executing tasks at the same time never
\* exceeds the current target size of the pool, also after the target was
\* lowered while tasks were still queued.
C31_BusyAtMostTarget ==
  Cardinality(BusyWorkers) <= m_maxThreads

\* C32: the busy counter m_activeThreads always equals the number of workers
\* that have dequeued a task and not yet finished it (the decrement of line
\* 165 being the last step of "finishing"), so it never goes below zero and
\* never exceeds the number of live workers.
C32_BusyCounterExact ==
  /\ m_activeThreads = Cardinality(BusyWorkers)
  /\ m_activeThreads >= 0
  /\ m_activeThreads <= Cardinality(LiveWorkers)
\* two workers are executing tasks at the same time after a grow
C32_Witness ==
  /\ Cardinality(BusyWorkers) = 2
  /\ m_activeThreads = 2

\* C33: while the pool is not stopped, a worker exits as surplus only when
\* the queue is empty and at least target-many other live workers are
\* executing tasks, so that its exit never brings the number of live workers
\* below the target in force at that moment.
C33_SurplusExit ==
  [][\A w \in Workers :
       (wpc[w] = "locked" /\ wpc'[w] = "exited" /\ ~m_stop)
         => /\ pool_m_tasks = <<>>
            /\ Cardinality(BusyWorkers \ {w}) >= m_maxThreads
            /\ Cardinality(LiveWorkers') >= m_maxThreads]_vars
\* a surplus worker has left a pool that is not stopped
C33_Witness ==
  /\ ~m_stop
  /\ \E w \in Workers : wpc[w] = "exited"

\* C34: when a setMaxThreads(n) call on a running pool returns, the target
\* m_maxThreads equals n, whatever grow and shrink calls came before.
C34_TargetIsRequested ==
  [][\A c \in Clients :
       /\ \A numThreads \in 1..MaxNumThreads :
            (/\ cpc[c] = "idle" /\ opsLeft' < opsLeft /\ ~m_stop
             /\ Text2Image_SetMaxThreads(c, numThreads)
             /\ cpc'[c] = "idle")
              => m_maxThreads' = numThreads
       /\ (cpc[c] = "smt_grow" /\ cpc'[c] = "idle" /\ ~m_stop)
            => m_maxThreads' = carg[c].n]_vars

\* C35: once the stopped flag of the pool is set, no worker thread is started
\* any more: a setMaxThreads call after the shutdown of the pool leaves the
\* worker set empty.
C35_NoWorkerAfterStop ==
  [][m_stop => /\ m_workers' <= m_workers
               /\ \A w \in Workers : w \notin LiveWorkers => w \notin LiveWorkers']_vars

\* C36: a worker invokes the callback while it holds no mutex of the pool
\* (it never takes the one of the registry), so that a callback which calls
\* GetResult, FreeTask, CreateTask or RenderAsync is not blocked for good:
\* m_mutex is only ever held by a worker inside its critical section of
\* lines 105-131, never by a worker that is executing a task or a callback.
C36_CallbackHoldsNoLock ==
  /\ \A w \in Workers : wpc[w] \in {"callback", "catch_cb"} => m_mutex # w
  /\ m_mutex # 0 => wpc[m_mutex] = "locked"
\* a worker is about to invoke a callback while another thread is enqueuing
C36_Witness ==
  \E w \in Workers :
    /\ wpc[w] = "callback"
    /\ m_callback[wentry[w].task] # 0
    /\ \E c \in Clients : cpc[c] = "async_enqueue"

\* C37: renderSync never invokes RenderEngine.render on an engine that a
\* shutdown has released: a thread that has passed the checks of renderSync
\* and is about to call m_renderEngine->render still has an engine.
C37_EngineAliveAtRender ==
  \A c \in Clients : cpc[c] = "sync_render" => m_renderEngine

\* C38: renderSync on a valid task returns true exactly when the status of
\* the task is Completed at the return and false exactly when it is Failed;
\* the status at the return is never Pending or Running.  Stated for a call
\* after whose return no other thread is working on the task.
C38_ReturnMatchesStatus ==
  [][\A c \in Clients :
       LET t == carg[c].task
       IN (/\ cpc[c] \in {"sync_ok", "sync_failed", "sync_catch"}
           /\ cpc'[c] = "idle"
           /\ \A d \in Clients : carg'[d].task # t
           /\ \A w \in Workers : wentry'[w].task # t)
            => /\ ret' = "true" <=> m_status'[t] = COMPLETED
               /\ ret' = "false" <=> m_status'[t] = FAILED]_vars

\* C39: for a dequeued task the worker invokes the callback at most once even
\* when the callback raises an exception: the exception handlers of the worker
\* neither change the status of the task, which the callback was told to be
\* Completed, nor invoke the callback again.
C39_HandlerLeavesTaskAlone ==
  [][\A w \in Workers :
       /\ (wpc[w] = "catch" /\ wpc'[w] # "catch")
            => m_status'[wentry[w].task] = m_status[wentry[w].task]
       /\ (wpc[w] = "catch_cb" /\ wpc'[w] # "catch_cb")
            => cbLog' = cbLog]_vars

====
